---- MODULE Spec2Model ----
(***************************************************************************)
(* sigfoxCallback: the webhook handler of sigfox-aws.                      *)
(*                                                                         *)
(* One invocation of main (src/sigfoxCallback/index.js) on top of the      *)
(* request/response pair built by init (src/index.js).  The synchronous    *)
(* part of main (init, device id, parseSIGFOXMessage, the age check, the   *)
(* start of every publish) is one step; the promise chain then advances    *)
(* whenever a publish or the tracing flush settles.                        *)
(*                                                                         *)
(* JavaScript strings that the code parses or re-cases are sequences of    *)
(* one-character strings.  undefined and null are the two sequences        *)
(* UNDEFINED and NULL, which no string of characters equals.               *)
(***************************************************************************)
EXTENDS Integers, Sequences, FiniteSets, TLC

VARIABLES
    isAWS,          \* process.env.AWS_LAMBDA_FUNCTION_NAME is set
    isGoogleCloud,  \* process.env.FUNCTION_NAME or GAE_SERVICE is set
    eventBody,      \* event.body: a raw payload, or MALFORMED text, or no string
    reqQuery,       \* req.query: UNDEFINED on AWS (prepareRequest sets none)
    now,            \* Date.now() read by task
    pc,             \* position of the invocation
    thrown,         \* the exception main threw synchronously, or "none"
    device,         \* device id derived by main
    body,           \* NormalizedMessageBody of task
    queues,         \* targets resolved by saveMessage
    pubs,           \* state of the publish to each target
    message,        \* the envelope object handed to every publishMessage
    result,         \* task's variable result
    composed,       \* value of getResponse once the chain has run it
    endTask,        \* state of scloud.endTask(req)
    returnStatus,   \* req.returnStatus
    returnJSON,     \* req.returnJSON
    callbackCount,  \* number of calls of the Lambda callback
    callbackArg,    \* the response object passed to the callback
    mainResult,     \* value the promise returned by main resolved with
    rootSpans,      \* number of calls of scloud.startRootSpan
    rootTraceId,    \* req.rootTraceId
    published,      \* rootTraceId of the envelope given to each publishMessage
    fn,             \* the function applied on its own, or "off"
    arg,            \* its arguments
    out,            \* what it returned, once it has been applied
    awsIoTDataPromise,  \* the memoized promise of getIoTData: 0 is null
    iotPromises,    \* state of every promise getIoTData created
    describeCalls,  \* number of Iot.describeEndpoint requests issued
    returned,       \* the promise each getIoTData call returned, in order
    wrapCount,      \* wrapCount of the wrapper: the number of calls of main
    reqs,           \* the request object init built for each invocation
    resSet,         \* what was given to each invocation's res.status / res.json
    sent,           \* what each invocation's callback received, in order
    buffer,         \* the buffer given to publisher().publish
    qpc,            \* position of the promise chain of that publish
    subsegment,     \* the X-Ray subsegment of the publish: none, open, closed
    annotations,    \* keys given to subsegment.addAnnotation
    awaited,        \* the getIoTData promise sendIoTMessage waits for: 0 is none
    transport,      \* state of the IotData.publish request
    outcome,        \* state and value of the promise publish returned
    iotCalls,       \* requests made to AWS IoT by the device operations
    shadowOp        \* the device operation called, its argument and its result

mainVars == <<isAWS, isGoogleCloud, eventBody, reqQuery, now, pc, thrown,
              device, body, queues, pubs, message, result, composed, endTask,
              returnStatus, returnJSON, callbackCount, callbackArg,
              mainResult, rootSpans, rootTraceId, published>>

fnVars == <<fn, arg, out>>

iotVars == <<awsIoTDataPromise, iotPromises, describeCalls, returned>>

wrapVars == <<wrapCount, reqs, resSet, sent>>

queueVars == <<buffer, qpc, subsegment, annotations, awaited, transport,
               outcome>>

shadowVars == <<iotCalls, shadowOp>>

vars == <<mainVars, fnVars, iotVars, wrapVars, queueVars, shadowVars>>

-----------------------------------------------------------------------------
(* JavaScript values *)

UNDEFINED == <<"undefined">>
NULL == <<"null">>

\* The boolean false, which is not the string "false".
JS_FALSE == <<"false">>

\* A non-empty string is truthy; undefined, null, false and "" are falsy.
TruthyStr(s) == s # UNDEFINED /\ s # NULL /\ s # JS_FALSE /\ s # <<>>

\* Numbers: an integer, NaN, or no number at all (the key is absent).
Num(n) == [k |-> "num", n |-> n]
NaN == [k |-> "nan", n |-> 0]
NoNum == [k |-> "absent", n |-> 0]

\* 0 and NaN are falsy, as is an absent key.
TruthyNum(x) == x.k = "num" /\ x.n # 0

Digits == {"0", "1", "2", "3", "4", "5", "6", "7", "8", "9"}

DigitVal(c) ==
    CASE c = "0" -> 0 [] c = "1" -> 1 [] c = "2" -> 2 [] c = "3" -> 3
      [] c = "4" -> 4 [] c = "5" -> 5 [] c = "6" -> 6 [] c = "7" -> 7
      [] c = "8" -> 8 [] c = "9" -> 9

RECURSIVE ParseDigits(_, _, _)
ParseDigits(s, acc, seen) ==
    IF s = <<>> \/ Head(s) \notin Digits
    THEN IF seen THEN Num(acc) ELSE NaN
    ELSE ParseDigits(Tail(s), acc * 10 + DigitVal(Head(s)), TRUE)

\* parseInt(s, 10): an optional minus sign and the longest prefix of decimal
\* digits, NaN when there is none.
parseInt(s) ==
    IF s # <<>> /\ Head(s) = "-"
    THEN LET u == ParseDigits(Tail(s), 0, FALSE)
         IN  IF u.k = "num" THEN Num(0 - u.n) ELSE u
    ELSE ParseDigits(s, 0, FALSE)

RECURSIVE TakeDigits(_)
TakeDigits(s) ==
    IF s = <<>> \/ Head(s) \notin Digits THEN <<>>
    ELSE <<Head(s)>> \o TakeDigits(Tail(s))

RECURSIVE StripZeros(_)
StripZeros(s) ==
    IF s # <<>> /\ s[Len(s)] = "0" THEN StripZeros(SubSeq(s, 1, Len(s) - 1))
    ELSE s

\* Floating point numbers: sign, integer part and the digits of the fraction
\* without trailing zeros, so that 15.50 and 15.5 are one number.
Float(neg, whole, frac) ==
    [k |-> "num", neg |-> neg, whole |-> whole, frac |-> frac]

FloatNaN == [k |-> "nan", neg |-> FALSE, whole |-> 0, frac |-> <<>>]

\* parseFloat(s) of a number in plain decimal notation.
parseFloat(s) ==
    LET neg == s # <<>> /\ Head(s) = "-"
        u == IF neg THEN Tail(s) ELSE s
        w == TakeDigits(u)
        rest == SubSeq(u, Len(w) + 1, Len(u))
        f == IF rest # <<>> /\ Head(rest) = "." THEN TakeDigits(Tail(rest)) ELSE <<>>
    IN  IF w = <<>> /\ f = <<>> THEN FloatNaN
        ELSE Float(neg, ParseDigits(w, 0, TRUE).n, StripZeros(f))

UpperChar(c) ==
    CASE c = "a" -> "A" [] c = "b" -> "B" [] c = "c" -> "C"
      [] c = "d" -> "D" [] c = "e" -> "E" [] c = "f" -> "F"
      [] OTHER -> c

toUpperCase(s) == [i \in 1..Len(s) |-> UpperChar(s[i])]


RECURSIVE DigitsOf(_)
DigitsOf(n) ==
    IF n < 10 THEN <<CHOOSE c \in Digits : DigitVal(c) = n>>
    ELSE Append(DigitsOf(n \div 10), CHOOSE c \in Digits : DigitVal(c) = n % 10)

\* `${x}` of an integer or NaN.
NumToString(x) ==
    IF x.k = "nan" THEN <<"N", "a", "N">>
    ELSE IF x.n < 0 THEN <<"-">> \o DigitsOf(0 - x.n)
    ELSE DigitsOf(x.n)

\* x * 1000; NaN stays NaN.
Times1000(x) == IF x.k = "num" THEN Num(x.n * 1000) ELSE x

STR_true == <<"t", "r", "u", "e">>
STR_false == <<"f", "a", "l", "s", "e">>
STR_all == <<"a", "l", "l">>
STR_missing_device == <<"m", "i", "s", "s", "i", "n", "g", "_", "d", "e", "v", "i", "c", "e">>

-----------------------------------------------------------------------------
(* Field Normalizer *)

parseBool(s) == s = STR_true

\* A boolean field of the normalized body: untouched when the raw value is
\* falsy (absent or ""), else the boolean parseBool gives.
\* A conversion without the presence test: an absent field becomes false.
BoolFieldDefaulting(raw) == [k |-> "bool", b |-> parseBool(raw), s |-> <<>>]

BoolField(raw) ==
    IF TruthyStr(raw) THEN [k |-> "bool", b |-> parseBool(raw), s |-> <<>>]
    ELSE [k |-> "raw", b |-> FALSE, s |-> raw]

\* An integer field: untouched when the raw value is falsy, else parseInt.
IntField(raw) ==
    IF TruthyStr(raw) THEN [k |-> "number", v |-> parseInt(raw), s |-> <<>>]
    ELSE [k |-> "raw", v |-> NoNum, s |-> raw]

\* A float field: untouched when the raw value is falsy, else parseFloat.
FloatField(raw) ==
    IF TruthyStr(raw) THEN [k |-> "number", v |-> parseFloat(raw), s |-> <<>>]
    ELSE [k |-> "raw", v |-> FloatNaN, s |-> raw]

parseSIGFOXMessage(body0) ==
    LET hasTime == TruthyStr(body0.time)
        t == parseInt(body0.time)
    IN  [device          |-> body0.device,
         data            |-> body0.data,
         station         |-> body0.station,
         time            |-> IF hasTime THEN UNDEFINED ELSE body0.time,
         baseStationTime |-> IF hasTime THEN t ELSE NoNum,
         timestamp       |-> IF hasTime THEN NumToString(Times1000(t)) ELSE UNDEFINED,
         duplicate       |-> BoolField(body0.duplicate),
         snr             |-> FloatField(body0.snr),
         avgSnr          |-> FloatField(body0.avgSnr),
         lat             |-> IntField(body0.lat),
         lng             |-> IntField(body0.lng),
         rssi            |-> FloatField(body0.rssi),
         seqNumber       |-> IntField(body0.seqNumber),
         ack             |-> BoolField(body0.ack),
         longPolling     |-> BoolField(body0.longPolling)]

-----------------------------------------------------------------------------
(* Freshness Guard *)

\* age > 5 * 60 * 1000
TooOld(age) == age > 5 * 60 * 1000

\* Date.now() - (baseStationTime * 1000)
Age(b, t) == t - b.baseStationTime.n * 1000

\* The condition under which task throws too_old.
GuardRejects(aws, b, t) ==
    aws /\ TruthyNum(b.baseStationTime) /\ TooOld(Age(b, t))

-----------------------------------------------------------------------------
(* Queue Target Resolver *)

Target(d, t) == [device |-> d, type |-> t]

\* The three-way list with the device target pushed before the type target.
QueuesDeviceFirst(gcloud, aws, dev, type) ==
    IF gcloud
    THEN <<Target(STR_all, UNDEFINED)>>
         \o (IF TruthyStr(dev) THEN <<Target(dev, UNDEFINED)>> ELSE <<>>)
         \o (IF TruthyStr(type) THEN <<Target(UNDEFINED, type)>> ELSE <<>>)
    ELSE IF aws THEN <<Target(NULL, NULL)>>
    ELSE <<>>

Queues(gcloud, aws, dev, type) ==
    IF gcloud
    THEN <<Target(STR_all, UNDEFINED)>>
         \o (IF TruthyStr(type) THEN <<Target(UNDEFINED, type)>> ELSE <<>>)
         \o (IF TruthyStr(dev) THEN <<Target(dev, UNDEFINED)>> ELSE <<>>)
    ELSE IF aws THEN <<Target(NULL, NULL)>>
    ELSE <<>>

-----------------------------------------------------------------------------
(* Downlink Response Composer *)

\* The hardcoded downlink payload.
DownlinkResult ==
    <<"0", "1", "2", "3", "4", "5", "6", "7", "8", "9", "a", "b", "c", "d", "e", "f">>

LowerChar(c) ==
    CASE c = "A" -> "a" [] c = "B" -> "b" [] c = "C" -> "c"
      [] c = "D" -> "d" [] c = "E" -> "e" [] c = "F" -> "f"
      [] c = "G" -> "g"
      [] OTHER -> c

\* Character codes of the characters the model uses in payloads.
CharCode(c) ==
    CASE c \in Digits -> 48 + DigitVal(c)
      [] c = "a" -> 97 [] c = "b" -> 98 [] c = "c" -> 99
      [] c = "d" -> 100 [] c = "e" -> 101 [] c = "f" -> 102
      [] c = "g" -> 103 [] c = ":" -> 58 [] c = "/" -> 47
      [] c = "_" -> 95 [] c = "@" -> 64 [] c = " " -> 32
      [] c = "A" -> 65 [] c = "F" -> 70 [] c = "G" -> 71
      [] OTHER -> 120

\* The test without its third clause: the characters between '9' and 'a' pass.
BadHexDigitNoGap(c) ==
    \/ CharCode(c) < CharCode("0")
    \/ CharCode(c) > CharCode("f")

\* s[0] < '0' || s[0] > 'f' || (s[0] > '9' && s[0] < 'a')
BadHexDigit(c) ==
    \/ CharCode(c) < CharCode("0")
    \/ CharCode(c) > CharCode("f")
    \/ (CharCode(c) > CharCode("9") /\ CharCode(c) < CharCode("a"))

ResultThrows(r) ==
    \/ Len(r) # 16
    \/ \E i \in 1..Len(r) : BadHexDigit(LowerChar(r[i]))

\* Values that can become the JSON of the response.
Json(k, dev, noData, downlink) ==
    [k |-> k, device |-> dev, noData |-> noData, downlinkData |-> downlink]

NoJson == Json("null", NULL, FALSE, <<>>)
ErrorValue == Json("error", NULL, FALSE, <<>>)

\* The test with the string comparison only.
NoDownlinkStringOnly(ack) == ack = STR_false

\* body.ack === false || body.ack === 'false'
NoDownlink(ack) == ack = JS_FALSE \/ ack = STR_false

\* The body of getResponse for a candidate result: the response mapping, or
\* ErrorValue when it throws.
getResponseWith(device0, body0, result0) ==
    LET dev == IF TruthyStr(device0) THEN device0 ELSE STR_missing_device
    IN  IF NoDownlink(body0.ack)
        THEN Json("response", dev, TRUE, <<>>)
        ELSE IF ResultThrows(result0)
             THEN ErrorValue
             ELSE Json("response", dev, FALSE, result0)

\* getResponse, whose result is the constant of line 165.
getResponse(device0, body0) == getResponseWith(device0, body0, DownlinkResult)

-----------------------------------------------------------------------------
(* Request Lifecycle Wrapper: inputs *)

\* Date.now() ranges over the instants within NowSlack ms of the five-minute
\* boundary of the fresh base station time.
NowSlack == 1

FreshTime == <<"1", "0", "0", "0">>

RawTimes == {UNDEFINED, <<>>, <<"0">>, FreshTime, <<"1", "s">>, <<"x">>}

RawDevices == {UNDEFINED, <<"1", "a", "2", "3", "4", "5">>}

RawAcks == {UNDEFINED, STR_false, STR_true}

\* The keys of the body Sigfox Cloud posts.
Fields ==
    {"device", "data", "time", "duplicate", "snr", "station", "avgSnr", "lat",
     "lng", "rssi", "seqNumber", "ack", "longPolling"}

EmptyPayload == [f \in Fields |-> UNDEFINED]

Payload(d, t, a) ==
    [EmptyPayload EXCEPT !.device = d, !.time = t, !.ack = a]

Payloads == {Payload(d, t, a) : d \in RawDevices, t \in RawTimes, a \in RawAcks}

\* event.body: JSON text of a payload, text that is no JSON, or no string.
EventBodies ==
    {[kind |-> "json", payload |-> p] : p \in Payloads}
    \cup {[kind |-> "malformed", payload |-> EmptyPayload],
          [kind |-> "nostring", payload |-> EmptyPayload]}

Query(def, type, dev) == [defined |-> def, type |-> type, device |-> dev]

NoQuery == Query(FALSE, UNDEFINED, UNDEFINED)

Queries ==
    {Query(TRUE, t, d) : t \in {UNDEFINED, <<"g", "p", "s">>},
                         d \in {UNDEFINED, <<"2", "b">>}}

Nows ==
    LET boundary == parseInt(FreshTime).n * 1000 + 5 * 60 * 1000
    IN  {boundary + d : d \in (0 - NowSlack)..NowSlack}

-----------------------------------------------------------------------------
(* Envelopes *)

Envelope(dev, type, b) ==
    [k |-> "envelope", device |-> dev, type |-> type, body |-> b,
     isDispatched |-> FALSE]

NullEnvelope ==
    [k |-> "null", device |-> NULL, type |-> NULL,
     body |-> parseSIGFOXMessage(EmptyPayload), isDispatched |-> FALSE]

\* The state of a promise nobody has resolved yet.
PendingEnvelope ==
    [k |-> "pending", device |-> NULL, type |-> NULL,
     body |-> parseSIGFOXMessage(EmptyPayload), isDispatched |-> FALSE]

NoTargets == <<>>

\* No function is applied on its own.
NotApplied == [k |-> "none"]

FnOff == fn = "off" /\ arg = NotApplied /\ out = NotApplied

\* getIoTData has not been called.
IoTOff ==
    /\ awsIoTDataPromise = 0
    /\ iotPromises = <<>>
    /\ describeCalls = 0
    /\ returned = <<>>

\* The wrapper has served no invocation.
WrapOff ==
    /\ wrapCount = 0
    /\ reqs = <<>>
    /\ resSet = <<>>
    /\ sent = <<>>

\* No publish has been asked of a queue.
QueueOff ==
    /\ buffer = [kind |-> "none"]
    /\ qpc = "off"
    /\ subsegment = "none"
    /\ annotations = {}
    /\ awaited = 0
    /\ transport = "idle"
    /\ outcome = [state |-> "none", value |-> "none"]

\* No device operation has been called.
ShadowOff ==
    /\ iotCalls = <<>>
    /\ shadowOp = [k |-> "none"]

\* The state when exports.main hands the event to wrapper.main.  A deployment
\* runs on exactly one cloud: with neither variable set no framework is
\* loaded and main cannot start.  On Google Cloud the request body arrives
\* parsed and req.query is always an object; on AWS prepareRequest parses
\* event.body and sets no query.
Init ==
    /\ isAWS \in BOOLEAN
    /\ isGoogleCloud = ~isAWS
    /\ eventBody \in EventBodies
    /\ isGoogleCloud => eventBody.kind = "json"
    /\ reqQuery \in (IF isAWS THEN {NoQuery} ELSE Queries)
    /\ now \in Nows
    /\ pc = "received"
    /\ thrown = "none"
    /\ device = NULL
    /\ body = parseSIGFOXMessage(EmptyPayload)
    /\ queues = NoTargets
    /\ pubs = <<>>
    /\ message = NullEnvelope
    /\ result = NullEnvelope
    /\ composed = NoJson
    /\ endTask = "idle"
    /\ returnStatus = 0
    /\ returnJSON = NoJson
    /\ callbackCount = 0
    /\ callbackArg = [statusCode |-> 0, body |-> NoJson]
    /\ mainResult = PendingEnvelope
    /\ rootSpans = 0
    /\ rootTraceId = NULL
    /\ published = <<>>
    /\ FnOff
    /\ IoTOff
    /\ WrapOff
    /\ QueueOff
    /\ ShadowOff

-----------------------------------------------------------------------------
(* main and task: the synchronous part *)

\* req.body after prepareRequest: the parsed payload, or null (no fields).
Body0 == IF eventBody.kind = "json" THEN eventBody.payload ELSE EmptyPayload

\* The device id of main: the body's, else the query's, else null.  Reading
\* req.query.device of an undefined req.query throws a TypeError.
DeriveDevice(body0, query) ==
    IF TruthyStr(body0.device)
    THEN [threw |-> FALSE, device |-> toUpperCase(body0.device)]
    ELSE IF ~query.defined
         THEN [threw |-> TRUE, device |-> NULL]
         ELSE IF TruthyStr(query.device)
              THEN [threw |-> FALSE, device |-> toUpperCase(query.device)]
              ELSE [threw |-> FALSE, device |-> NULL]

\* (req.query && req.query.type) || null
DeriveType(query) ==
    IF query.defined /\ TruthyStr(query.type) THEN query.type ELSE NULL

\* A loop that awaits each publish before starting the next one.
StartPublishesOneByOne(qs) ==
    [i \in 1..Len(qs) |-> IF i = 1 THEN "pending" ELSE "idle"]

\* The for loop of saveMessage calls publishMessage for every queue.
StartPublishes(qs) == [i \in 1..Len(qs) |-> "pending"]

\* saveMessage up to Promise.all: the envelope, the targets, the publishes.
SaveMessageSync(gcloud, aws, dev, type, b) ==
    LET qs == Queues(gcloud, aws, dev, type)
    IN  [thrown |-> "none", body |-> b, queues |-> qs,
         pubs |-> StartPublishes(qs), message |-> Envelope(dev, type, b)]

\* A task that checks the age only after saveMessage was called.
TaskSyncGuardLate(gcloud, aws, dev, type, body0, t) ==
    LET b == parseSIGFOXMessage(body0)
        saved == SaveMessageSync(gcloud, aws, dev, type, b)
    IN  IF GuardRejects(aws, b, t)
        THEN [saved EXCEPT !.thrown = "too_old"]
        ELSE saved

\* task up to the call of saveMessage: normalize, check the age, dispatch.
TaskSync(gcloud, aws, dev, type, body0, t) ==
    LET b == parseSIGFOXMessage(body0)
    IN  IF GuardRejects(aws, b, t)
        THEN [thrown |-> "too_old", body |-> b, queues |-> NoTargets,
              pubs |-> <<>>, message |-> NullEnvelope]
        ELSE SaveMessageSync(gcloud, aws, dev, type, b)

\* main from scloud.init to the return of task(...).
MainSync ==
    LET dev == DeriveDevice(Body0, reqQuery)
    IN  IF eventBody.kind = "malformed"
        THEN [thrown |-> "SyntaxError", device |-> NULL, body |-> body,
              queues |-> NoTargets, pubs |-> <<>>, message |-> NullEnvelope]
        ELSE IF dev.threw
        THEN [thrown |-> "TypeError", device |-> NULL, body |-> body,
              queues |-> NoTargets, pubs |-> <<>>, message |-> NullEnvelope]
        ELSE [device |-> dev.device]
             @@ TaskSync(isGoogleCloud, isAWS, dev.device,
                         DeriveType(reqQuery), Body0, now)

\* The trace ids scloud.startRootSpan may hand back: rootTrace.traceId is
\* a string, or undefined when the trace has no such property.
TraceIds == {UNDEFINED, <<"t", "1">>, <<"t", "2">>}

\* A saveMessage that leaves the trace id out of every message but the first.
CarriedByFirstOnly(id, i) == IF i = 1 THEN id ELSE NULL

\* The rootTraceId of the message given to the i-th publishMessage: the
\* one message object of saveMessage, built from task's msg.rootTraceId.
Carried(id, i) == id

Main ==
    /\ pc = "received"
    /\ LET m == MainSync
       IN  /\ thrown' = m.thrown
           /\ device' = m.device
           /\ body' = m.body
           /\ queues' = m.queues
           /\ pubs' = m.pubs
           /\ message' = m.message
           /\ pc' = IF m.thrown = "none" THEN "dispatching" ELSE "thrown"
           /\ \E id \in TraceIds :
                 IF m.thrown = "SyntaxError"
                 THEN UNCHANGED <<rootSpans, rootTraceId, published>>
                 ELSE /\ rootSpans' = rootSpans + 1
                      /\ rootTraceId' = id
                      /\ published' =
                            [i \in 1..Len(m.pubs) |-> Carried(id, i)]
    /\ UNCHANGED <<isAWS, isGoogleCloud, eventBody, reqQuery, now, result,
                   composed, endTask, returnStatus, returnJSON, callbackCount,
                   callbackArg, mainResult, fnVars, iotVars, wrapVars, queueVars, shadowVars>>

-----------------------------------------------------------------------------
(* Fan-out Dispatcher *)

\* scloud.publishMessage settles for one target.
PublishSettle ==
    /\ \E i \in 1..Len(pubs), o \in {"ok", "failed"} :
          /\ pubs[i] = "pending"
          /\ pubs' = [pubs EXCEPT ![i] = o]
    /\ UNCHANGED <<isAWS, isGoogleCloud, eventBody, reqQuery, now, pc, thrown,
                   device, body, queues, message, result, composed, endTask,
                   returnStatus, returnJSON, callbackCount, callbackArg,
                   mainResult, rootSpans, rootTraceId, published, fnVars,
                   iotVars, wrapVars, queueVars, shadowVars>>

\* A publish that is not waited for: its promise counts as resolved at once.
CaughtUnawaited(p) == "resolved"

\* A publish without its catch: a failure stays a rejection.
CaughtNot(p) ==
    IF p = "ok" THEN "resolved" ELSE IF p = "failed" THEN "rejected" ELSE "pending"

\* publishMessage(...).catch(error => error): a settled publish is a
\* resolved promise, whether it succeeded or failed.
Caught(p) == IF p \in {"ok", "failed"} THEN "resolved" ELSE "pending"

\* A join that gives way as soon as one promise has resolved.
PromiseRace(ps) ==
    IF \E i \in 1..Len(ps) : ps[i] = "rejected" THEN "rejected"
    ELSE IF ps = <<>> \/ \E i \in 1..Len(ps) : ps[i] = "resolved" THEN "resolved"
    ELSE "pending"

\* Promise.all: rejected once one is rejected, resolved once all are.
PromiseAll(ps) ==
    IF \E i \in 1..Len(ps) : ps[i] = "rejected" THEN "rejected"
    ELSE IF \A i \in 1..Len(ps) : ps[i] = "resolved" THEN "resolved"
    ELSE "pending"

Promises == [i \in 1..Len(pubs) |-> Caught(pubs[i])]

\* Object.assign(message, { isDispatched: true }): message itself is changed.
AssignInPlace(m) ==
    [returned |-> [m EXCEPT !.isDispatched = TRUE],
     message |-> [m EXCEPT !.isDispatched = TRUE]]

\* Object.assign({}, message, { isDispatched: true }): a copy is returned
\* and message is left as it was.
AssignDispatched(m) ==
    [returned |-> [m EXCEPT !.isDispatched = TRUE], message |-> m]

\* saveMessage's promise settles and the chain of task runs up to the call
\* of scloud.endTask: result is assigned, getResponse composes the response,
\* scloud.dumpError swallows a rejection, the final result is logged.
Join ==
    /\ pc = "dispatching"
    /\ PromiseAll(Promises) # "pending"
    /\ LET saved == PromiseAll(Promises) = "resolved"
           oa == AssignDispatched(message)
       IN  /\ result' = IF saved THEN oa.returned ELSE result
           /\ message' = IF saved THEN oa.message ELSE message
           /\ composed' = IF saved THEN getResponse(device, Body0) ELSE composed
    /\ endTask' = "pending"
    /\ pc' = "flushing"
    /\ UNCHANGED <<isAWS, isGoogleCloud, eventBody, reqQuery, now, thrown,
                   device, body, queues, pubs, returnStatus, returnJSON,
                   callbackCount, callbackArg, mainResult, rootSpans,
                   rootTraceId, published, fnVars, iotVars, wrapVars, queueVars, shadowVars>>

-----------------------------------------------------------------------------
(* Response *)

\* What scloud.endTask resolves with: the request carries no response, so
\* it is no response mapping.
EndTaskValue == Json("endTask", NULL, FALSE, <<>>)

\* JSON.stringify: an Error has no enumerable property and serializes as {}.
Stringify(v) == IF v.k = "error" THEN Json("object", NULL, FALSE, <<>>) ELSE v

\* A done that derives the status from the error alone.
doneStatusFromError(error, res, statusCode0) ==
    [statusCode |-> IF error THEN 500 ELSE 200,
     body |-> IF error THEN Json("message", NULL, FALSE, <<>>)
              ELSE Stringify(res),
     headers |-> [ContentType |-> "application/json"]]

\* done: statusCode0 || (error ? 500 : 200), and the error's message or the
\* serialized result as the body.  A status of 0 stands for null.
done(error, res, statusCode0) ==
    [statusCode |-> IF statusCode0 # 0 THEN statusCode0
                    ELSE IF error THEN 500 ELSE 200,
     body |-> IF error THEN Json("message", NULL, FALSE, <<>>)
              ELSE Stringify(res),
     headers |-> [ContentType |-> "application/json"]]

\* endTask without its catch: a failed flush rejects the chain.
FlushUncaught(ok) ==
    [fulfilled |-> ok, value |-> IF ok THEN EndTaskValue ELSE ErrorValue]

\* scloud.endTask(req).catch(scloud.dumpError): fulfilled either way, with
\* the value of endTask or with the error dumpError returns.
Flush(ok) ==
    [fulfilled |-> TRUE, value |-> IF ok THEN EndTaskValue ELSE ErrorValue]

\* The status task gives res.status.
ResponseStatus == 204

\* A shutdown that returns through the callback whatever useCallback says.
shutdownAlwaysCalls(useCallback, hasCallback) == IF hasCallback THEN 1 ELSE 0

\* shutdown: the number of times it calls req.callback.
shutdown(useCallback, hasCallback) ==
    IF useCallback /\ hasCallback THEN 1 ELSE 0

\* useCallback as sigfoxCallback has it: "normally true except for
\* sigfoxCallback", which answers through res.end.
UseCallback == FALSE

\* oldMessage of main: the envelope over the raw body, built before task.
OldMessage ==
    [k |-> "envelope", device |-> device, type |-> DeriveType(reqQuery),
     body |-> Body0, isDispatched |-> FALSE]

\* scloud.endTask settles, having closed the connections through
\* shutdown; the value it settled with is the response handed to
\* res.status(204).json(response).end(), which calls done and with it the
\* callback; task then resolves with result and main with updatedMessage.
EndTaskSettle ==
    /\ pc = "flushing"
    /\ endTask = "pending"
    /\ \E ok \in BOOLEAN :
          LET f == Flush(ok)
          IN  /\ endTask' = IF ok THEN "ok" ELSE "failed"
              /\ returnStatus' = IF f.fulfilled THEN ResponseStatus ELSE returnStatus
              /\ returnJSON' = IF f.fulfilled THEN f.value ELSE returnJSON
              /\ callbackCount' = callbackCount + shutdown(UseCallback, TRUE)
                                    + (IF f.fulfilled THEN 1 ELSE 0)
              /\ callbackArg' = IF f.fulfilled
                                THEN done(FALSE, returnJSON', returnStatus')
                                ELSE callbackArg
              /\ mainResult' = IF f.fulfilled THEN result ELSE OldMessage
    /\ pc' = "done"
    /\ UNCHANGED <<isAWS, isGoogleCloud, eventBody, reqQuery, now, thrown,
                   device, body, queues, pubs, message, result, composed,
                   rootSpans, rootTraceId, published, fnVars, iotVars,
                   wrapVars, queueVars, shadowVars>>

Next == Main \/ PublishSettle \/ Join \/ EndTaskSettle

Spec == Init /\ [][Next]_vars

\* The collaborators settle every request they were given, and the event
\* loop runs every callback that is ready.
FairSpec ==
    Spec /\ WF_vars(Main) /\ WF_vars(PublishSettle) /\ WF_vars(Join)
         /\ WF_vars(EndTaskSettle)

-----------------------------------------------------------------------------
(* Properties *)

Settled(i) == pubs[i] \in {"ok", "failed"}

Initiated(i) == pubs[i] \in {"pending", "ok", "failed"}

\* The response mapping the composer gives for this request.
ComposerMapping == getResponse(device, Body0)

\* C1: every invocation reaches a terminal response exactly once: an
\* invocation that has ended, by a synchronous throw of main or by the end
\* of its promise chain, has invoked the response callback exactly one time.
C1_TerminalResponseOnce ==
    pc \in {"thrown", "done"} => callbackCount = 1

\* C2: on the success path the status is 204 and the JSON body given to the
\* caller is the mapping of getResponse: noData when the raw ack is "false",
\* the downlink payload when ack is absent.
C2_BodyIsComposerMapping ==
    (pc = "done" /\ callbackCount = 1) =>
        /\ callbackArg.statusCode = 204
        /\ callbackArg.body = ComposerMapping
        /\ Body0.ack = STR_false =>
              callbackArg.body = Json("response", device, TRUE, <<>>)
        /\ Body0.ack = UNDEFINED =>
              callbackArg.body = Json("response", device, FALSE, DownlinkResult)

\* C3: on AWS a message that carries a base station time is rejected if and
\* only if now - baseStationTime * 1000 is greater than 300000.
C3_RejectsIffOlderThanFiveMinutes ==
    (isAWS /\ pc \notin {"received"} /\ thrown \in {"none", "too_old"}
           /\ body.baseStationTime.k = "num") =>
        (thrown = "too_old" <=> Age(body, now) > 300000)

\* C4: when the Freshness Guard rejects a message, no publish is initiated
\* for the invocation, at the rejection or at any later time.
C4_NoPublishWhenStale ==
    thrown = "too_old" =>
        /\ pc = "thrown"
        /\ queues = NoTargets
        /\ \A i \in 1..Len(pubs) : ~Initiated(i)

C4_Witness ==
    /\ thrown = "too_old"
    /\ Age(body, now) = 300001

\* C5: with three targets, a failed publish to the second leaves the first
\* and the third attempted, saveMessage does not complete before both have
\* settled, and when it completes the envelope carries isDispatched = true.
C5_FailureDoesNotAbortSiblings ==
    (Len(pubs) = 3 /\ pubs[2] = "failed") =>
        /\ Initiated(1) /\ Initiated(3)
        /\ pc \in {"flushing", "done"} =>
              /\ Settled(1) /\ Settled(3)
              /\ result.k = "envelope"
              /\ result.isDispatched

C5_Witness ==
    /\ pc = "done"
    /\ pubs = <<"ok", "failed", "ok">>
    /\ result.isDispatched
    /\ mainResult.isDispatched

\* C6: an envelope with isDispatched = true exists only once every publish of
\* the request has settled, and the envelope handed to the publishes never
\* carries isDispatched = true.
C6_DispatchedOnlyAfterAllSettled ==
    /\ ~message.isDispatched
    /\ (result.isDispatched \/ mainResult.isDispatched) =>
          \A i \in 1..Len(queues) : Len(pubs) = Len(queues) /\ Settled(i)

C6_Witness ==
    /\ Len(queues) = 3
    /\ result.isDispatched
    /\ message.k = "envelope"
    /\ \E i \in 1..3 : pubs[i] = "failed"
    /\ pc = "flushing"

\* C7: once saveMessage has run its loop, the publish to every resolved
\* target has been initiated, whatever the state of the earlier publishes:
\* no target waits for another target's publish to settle or to succeed.
C7_AllPublishesInitiatedTogether ==
    pc \in {"dispatching", "flushing", "done"} =>
        /\ Len(pubs) = Len(queues)
        /\ \A i \in 1..Len(queues) : Initiated(i)

C7_Witness ==
    /\ pc = "dispatching"
    /\ Len(queues) = 3
    /\ pubs = <<"pending", "pending", "pending">>

\* C8: the response does not wait for the tracing flush: while endTask is
\* still pending the response has already been sent.
C8_ResponseBeforeFlush ==
    endTask = "pending" => callbackCount = 1

C10_EarlyErrorIs500 ==
    thrown # "none" =>
        /\ callbackCount = 1
        /\ callbackArg.statusCode = 500
        /\ callbackArg.body.k = "message"

\* C11: a request whose body carries no device id is not failed by main: the
\* device id is the query's device if there is one, and otherwise the
\* request runs on with a response keyed by "missing_device".
C11_MissingDeviceTolerated ==
    (pc # "received" /\ eventBody.kind # "malformed" /\ ~TruthyStr(Body0.device)) =>
        /\ thrown # "TypeError"
        /\ thrown = "none" =>
              device = (IF reqQuery.defined /\ TruthyStr(reqQuery.device)
                        THEN toUpperCase(reqQuery.device) ELSE NULL)
        /\ (pc \in {"flushing", "done"} /\ device = NULL) =>
              composed.device = STR_missing_device

-----------------------------------------------------------------------------
(* getIoTData: the memoized endpoint handle *)

\* Number of getIoTData calls of a run.
MaxIoTCalls == 3

\* The main invocation is not running.
MainOff ==
    /\ isAWS = TRUE
    /\ isGoogleCloud = FALSE
    /\ eventBody = [kind |-> "nostring", payload |-> EmptyPayload]
    /\ reqQuery = NoQuery
    /\ now = 0
    /\ pc = "off"
    /\ thrown = "none"
    /\ device = NULL
    /\ body = parseSIGFOXMessage(EmptyPayload)
    /\ queues = NoTargets
    /\ pubs = <<>>
    /\ message = NullEnvelope
    /\ result = NullEnvelope
    /\ composed = NoJson
    /\ endTask = "idle"
    /\ returnStatus = 0
    /\ returnJSON = NoJson
    /\ callbackCount = 0
    /\ callbackArg = [statusCode |-> 0, body |-> NoJson]
    /\ mainResult = PendingEnvelope
    /\ rootSpans = 0
    /\ rootTraceId = NULL
    /\ published = <<>>

IoTInit == MainOff /\ FnOff /\ IoTOff /\ WrapOff /\ QueueOff /\ ShadowOff

\* The functions of the framework that call getIoTData.
IoTCallers == {"sendIoTMessage", "getDeviceState", "updateDeviceState"}

Returned(p, c) == [promise |-> p, caller |-> c]

\* A getIoTData that keeps no memo.
CacheHitNever(cache) == FALSE

\* if (awsIoTDataPromise) return awsIoTDataPromise;
CacheHit(cache) == cache # 0

CacheKeptAfterFailure(cache) == cache

\* The catch of getIoTData: awsIoTDataPromise = null.
CacheAfterFailure(cache) == 0

\* A call of getIoTData: the memoized promise if there is one, else a new
\* promise over a new describeEndpoint request, memoized at once.
getIoTData(c) ==
    IF CacheHit(awsIoTDataPromise)
    THEN /\ returned' = Append(returned, Returned(awsIoTDataPromise, c))
         /\ UNCHANGED <<awsIoTDataPromise, iotPromises, describeCalls>>
    ELSE /\ iotPromises' = Append(iotPromises, "pending")
         /\ describeCalls' = describeCalls + 1
         /\ awsIoTDataPromise' = Len(iotPromises) + 1
         /\ returned' = Append(returned, Returned(Len(iotPromises) + 1, c))

\* getIoTData called by one of its callers.
GetIoTData ==
    /\ Len(returned) < MaxIoTCalls
    /\ \E c \in IoTCallers : getIoTData(c)
    /\ UNCHANGED <<mainVars, fnVars, wrapVars, queueVars, shadowVars>>

\* The describeEndpoint request behind promise p settles: the promise
\* resolves with a new IotData handle, or rejects after clearing the memo.
DescribeEndpointSettle ==
    /\ \E p \in 1..Len(iotPromises), ok \in BOOLEAN :
          /\ iotPromises[p] = "pending"
          /\ iotPromises' = [iotPromises EXCEPT ![p] = IF ok THEN "resolved" ELSE "rejected"]
          /\ awsIoTDataPromise' = IF ok THEN awsIoTDataPromise
                                  ELSE CacheAfterFailure(awsIoTDataPromise)
    /\ UNCHANGED <<describeCalls, returned, mainVars, fnVars, wrapVars, queueVars, shadowVars>>

IoTNext == GetIoTData \/ DescribeEndpointSettle

IoTSpec == IoTInit /\ [][IoTNext]_vars

\* C12: a failed resolution leaves no memoized promise behind, so the next
\* getIoTData call issues a new describeEndpoint; once a resolution has
\* succeeded, no describeEndpoint is issued again and every call returns
\* that same promise and with it the same handle.
C12_EndpointMemo ==
    /\ [](awsIoTDataPromise # 0 => iotPromises[awsIoTDataPromise] # "rejected")
    /\ [][(awsIoTDataPromise = 0 /\ Len(returned') > Len(returned)) =>
            /\ describeCalls' = describeCalls + 1
            /\ iotPromises'[returned'[Len(returned')].promise] = "pending"]_vars
    /\ [][(awsIoTDataPromise # 0 /\ iotPromises[awsIoTDataPromise] = "resolved") =>
            /\ awsIoTDataPromise' = awsIoTDataPromise
            /\ describeCalls' = describeCalls
            /\ Len(returned') > Len(returned) =>
                  returned'[Len(returned')].promise = awsIoTDataPromise]_vars

C12_Witness ==
    /\ Len(iotPromises) = 2
    /\ iotPromises[1] = "rejected"
    /\ iotPromises[2] = "resolved"
    /\ describeCalls = 2
    /\ Len(returned) = 3
    /\ returned[2].promise = 2 /\ returned[3].promise = 2

-----------------------------------------------------------------------------
(* The functions of the callback, each applied on its own to one input *)

NormPayloads ==
    {[EmptyPayload EXCEPT !.time = t, !.duplicate = d, !.ack = a,
                          !.longPolling = l, !.snr = sn, !.avgSnr = sn,
                          !.lat = la, !.lng = la, !.seqNumber = q,
                          !.rssi = r, !.station = st] :
        t \in RawTimes,
        d \in {UNDEFINED, <<>>, STR_true, STR_false, <<"1">>},
        a \in {UNDEFINED, <<>>, STR_true, STR_false},
        l \in {UNDEFINED, STR_true},
        sn \in {UNDEFINED, <<"1", "8", ".", "8", "6">>, <<"x">>},
        la \in {UNDEFINED, <<"1">>, <<"-", "5">>},
        q \in {UNDEFINED, <<"1", "5", "0", "8">>},
        r \in {UNDEFINED, <<"-", "1", "2", "3", ".", "0", "0">>},
        st \in {UNDEFINED, <<"1", "D", "4", "4">>}}

\* A call of parseSIGFOXMessage: the caller's object after the call, which
\* the function cloned and so left alone, and the object returned.
ParseCall(body0) ==
    [k |-> "returned", input |-> body0, output |-> parseSIGFOXMessage(body0)]

ApplyParse ==
    /\ fn = "parseSIGFOXMessage"
    /\ out.k = "none"
    /\ out' = ParseCall(arg)
    /\ UNCHANGED <<fn, arg, mainVars, iotVars, wrapVars, queueVars, shadowVars>>

Parsed == fn = "parseSIGFOXMessage" /\ out.k = "returned"

BoolFields == {"duplicate", "ack", "longPolling"}

\* Whether the normalized body has the key f.
KeyOut(f) ==
    IF f \in {"device", "data", "station", "time"}
    THEN out.output[f] # UNDEFINED
    ELSE out.output[f].k # "raw" \/ out.output[f].s # UNDEFINED

\* C13: parseSIGFOXMessage leaves its input as it was and returns a body
\* without a time key.
C13_InputKeptNoTimeKey ==
    Parsed => out.input = arg /\ out.output.time = UNDEFINED

\* C14: a boolean field that is present becomes true for "true" and false
\* for every other value, the empty string included; an absent one stays
\* absent.
C14_BooleanFields ==
    Parsed =>
        \A f \in BoolFields :
            IF arg[f] = UNDEFINED THEN ~KeyOut(f)
            ELSE /\ out.output[f].k = "bool"
                 /\ out.output[f].b = (arg[f] = STR_true)

\* C15: every key of the normalized body other than baseStationTime and
\* timestamp is a key of the input; these two exist only if the input has a
\* time, and timestamp reads as baseStationTime * 1000 in decimal.
C15_NoInventedFields ==
    Parsed =>
        /\ \A f \in Fields : KeyOut(f) => arg[f] # UNDEFINED
        /\ (out.output.baseStationTime.k # "absent"
              \/ out.output.timestamp # UNDEFINED) => arg.time # UNDEFINED
        /\ out.output.timestamp # UNDEFINED =>
              LET bst == out.output.baseStationTime
                  ts == out.output.timestamp
              IN  /\ bst.k # "absent"
                  /\ bst.k = "nan" => ts = <<"N", "a", "N">>
                  /\ bst.k = "num" =>
                        /\ ts # <<>> /\ TakeDigits(ts) = ts
                        /\ parseInt(ts) = Num(bst.n * 1000)

C15_Witness ==
    /\ Parsed
    /\ arg.time = FreshTime
    /\ out.output.timestamp = <<"1", "0", "0", "0", "0", "0", "0">>
    /\ arg.ack = UNDEFINED /\ ~KeyOut("ack")
    /\ arg.duplicate = STR_false /\ KeyOut("duplicate")

\* Candidate results: the constant of line 165, the constant with one
\* character replaced, and strings of other lengths.
CandidateChars ==
    {"0", "9", "a", "f", "A", "F", "g", "G", ":", "/", "_", "@", " ", "x"}

CandidatePositions == {1, 8, 16}

Candidates ==
    {[DownlinkResult EXCEPT ![i] = c] :
        i \in CandidatePositions, c \in CandidateChars}
    \cup {<<>>, SubSeq(DownlinkResult, 1, 15), Append(DownlinkResult, "0")}

ResponseDevices == RawDevices \cup {NULL, <<>>}

ResponseAcks == RawAcks \cup {JS_FALSE, <<>>}

ResponseArgs ==
    [device0 : ResponseDevices, ack : ResponseAcks, result : Candidates]

ApplyGetResponse ==
    /\ fn = "getResponse"
    /\ out.k = "none"
    /\ out' = [k |-> "returned",
               value |-> getResponseWith(arg.device0,
                                         [EmptyPayload EXCEPT !.ack = arg.ack],
                                         arg.result)]
    /\ UNCHANGED <<fn, arg, mainVars, iotVars, wrapVars, queueVars, shadowVars>>

Responded == fn = "getResponse" /\ out.k = "returned"

HexChars ==
    {"0", "1", "2", "3", "4", "5", "6", "7", "8", "9",
     "a", "b", "c", "d", "e", "f"}

HexCharsAnyCase == HexChars \cup {"A", "B", "C", "D", "E", "F"}

C17_ValidatorAcceptsOnlyHex ==
    (Responded /\ arg.ack \notin {JS_FALSE, STR_false}) =>
        IF /\ Len(arg.result) = 16
           /\ \A i \in 1..16 : arg.result[i] \in HexCharsAnyCase
        THEN /\ out.value.k = "response"
             /\ out.value.downlinkData = arg.result
        ELSE out.value = ErrorValue

C17_Witness ==
    /\ Responded
    /\ arg.ack = STR_true
    /\ Len(arg.result) = 16
    /\ arg.result[8] = ":"
    /\ out.value = ErrorValue

MaxIdLen == 7

IdChars == {"a", "B", "1"}

\* Device ids and device names: every string over IdChars of up to MaxIdLen
\* characters, the empty one included.
DeviceIds == UNION {[1..n -> IdChars] : n \in 0..MaxIdLen}

\* Capitalise device ID but not device names, with the threshold at 6.
normalizeDeviceFromSix(device0) ==
    IF Len(device0) >= 6 THEN device0 ELSE toUpperCase(device0)

\* device0.length > 6 ? device0 : device0.toUpperCase()
normalizeDevice(device0) ==
    IF Len(device0) > 6 THEN device0 ELSE toUpperCase(device0)

\* The operations without their test of device0.
ShadowDeviceUnchecked(device0, calls) ==
    [k |-> "returned", first |-> device0,
     device |-> normalizeDevice(device0), calls |-> calls]

\* The first lines of createDevice, getDeviceState and updateDeviceState:
\* the thing name for device0, or the throw of missing_deviceid.
ShadowDevice(device0, calls) ==
    IF ~TruthyStr(device0)
    THEN [k |-> "threw", first |-> device0, device |-> device0,
          calls |-> calls]
    ELSE [k |-> "returned", first |-> device0,
          device |-> normalizeDevice(device0), calls |-> calls]

\* A shadow operation on an id, then the same operation on the thing name
\* the first one used.
ApplyShadowDevice ==
    /\ fn = "getDeviceState"
    /\ IF out.k = "none" THEN TRUE ELSE out.k = "returned" /\ out.calls = 1
    /\ out' = IF out.k = "none"
              THEN ShadowDevice(arg, 1)
              ELSE ShadowDevice(out.device, 2)
    /\ UNCHANGED <<fn, arg, mainVars, iotVars, wrapVars, queueVars, shadowVars>>

\* C18: the shadow operations upper-case an id of at most 6 characters,
\* keep a longer one as it is, and give the same name when applied to the
\* name they gave.
C18_NormalizeIdempotent ==
    (fn = "getDeviceState" /\ out.k = "returned") =>
        /\ out.calls = 1 =>
              /\ Len(out.device) = Len(arg)
              /\ \A i \in 1..Len(arg) :
                    out.device[i] =
                        (IF Len(arg) <= 6 /\ arg[i] = "a" THEN "A" ELSE arg[i])
        /\ out.calls = 2 => out.device = out.first

C18_Witness ==
    /\ fn = "getDeviceState"
    /\ out.k = "returned"
    /\ out.calls = 2
    /\ arg = <<"a", "B", "1", "a", "B", "1">>
    /\ out.device = <<"A", "B", "1", "A", "B", "1">>

\* main's device id for a body with the device id0, and the thing name the
\* shadow operations use for id0.
AddressDevice(id0) ==
    [k |-> "returned",
     envelope |-> DeriveDevice([EmptyPayload EXCEPT !.device = id0],
                               NoQuery).device,
     shadow |-> ShadowDevice(id0, 1).device]

ApplyDeriveDevice ==
    /\ fn = "main"
    /\ out.k = "none"
    /\ out' = AddressDevice(arg)
    /\ UNCHANGED <<fn, arg, mainVars, iotVars, wrapVars, queueVars, shadowVars>>

\* C19: the device id main puts in the envelope is the name under which
\* the shadow operations address the device: upper-cased up to 6
\* characters, verbatim beyond.
C19_EnvelopeIdIsShadowId ==
    (fn = "main" /\ out.k = "returned") =>
        /\ out.envelope = out.shadow
        /\ out.envelope = normalizeDevice(arg)

\* The deployments: the flags of lines 99-100, at least one of them set.
Deployments ==
    {d \in [gcloud : BOOLEAN, aws : BOOLEAN] : d.gcloud \/ d.aws}

\* The device and the type that main hands to saveMessage: null or truthy.
QueueArgs ==
    {[gcloud |-> d.gcloud, aws |-> d.aws, device |-> dev, type |-> t] :
        d \in Deployments,
        dev \in {NULL} \cup {toUpperCase(x) : x \in RawDevices \ {UNDEFINED}}
                       \cup {<<"2", "B">>},
        t \in {NULL, <<"g", "p", "s">>, <<"t">>}}

ApplyQueues ==
    /\ fn = "saveMessage"
    /\ out.k = "none"
    /\ out' = [k |-> "returned",
               queues |-> Queues(arg.gcloud, arg.aws, arg.device, arg.type)]
    /\ UNCHANGED <<fn, arg, mainVars, iotVars, wrapVars, queueVars, shadowVars>>

\* C20: on AWS alone the target list is the one target (null, null); on
\* Google Cloud it is the all-devices target, then the type target if the
\* type is not null, then the device target, last, if the device is not
\* null.  The list is never empty.
C20_TargetList ==
    (fn = "saveMessage" /\ out.k = "returned") =>
        LET q == out.queues
            hasType == arg.type # NULL
            hasDevice == arg.device # NULL
        IN  /\ Len(q) >= 1
            /\ ~arg.gcloud => q = <<[device |-> NULL, type |-> NULL]>>
            /\ arg.gcloud =>
                  /\ Len(q) = 1 + (IF hasType THEN 1 ELSE 0)
                                + (IF hasDevice THEN 1 ELSE 0)
                  /\ q[1] = [device |-> STR_all, type |-> UNDEFINED]
                  /\ hasType => q[2] = [device |-> UNDEFINED, type |-> arg.type]
                  /\ hasDevice =>
                        q[Len(q)] = [device |-> arg.device, type |-> UNDEFINED]

C20_Witness ==
    /\ fn = "saveMessage"
    /\ out.k = "returned"
    /\ arg.gcloud
    /\ arg.type = <<"g", "p", "s">>
    /\ arg.device = <<"2", "B">>
    /\ Len(out.queues) = 3
    /\ out.queues[3].device = <<"2", "B">>

\* The arguments of done: an error or none, a result, and a status code or
\* null (0).
DoneArgs ==
    [error : BOOLEAN,
     result : {NoJson, EndTaskValue, ErrorValue,
               Json("response", STR_missing_device, FALSE, DownlinkResult)},
     statusCode0 : {0, 200, ResponseStatus, 500}]

ApplyDone ==
    /\ fn = "done"
    /\ out.k = "none"
    /\ out' = [k |-> "returned",
               value |-> done(arg.error, arg.result, arg.statusCode0)]
    /\ UNCHANGED <<fn, arg, mainVars, iotVars, wrapVars, queueVars, shadowVars>>

\* C29: done gives the callback the status code it was given, or without
\* one 500 for an error and 200 for none; the body is the error's message
\* for an error and the serialized result otherwise; the Content-Type is
\* application/json.
C29_DoneStatusBodyHeader ==
    (fn = "done" /\ out.k = "returned") =>
        /\ out.value.statusCode =
              (IF arg.statusCode0 # 0 THEN arg.statusCode0
               ELSE IF arg.error THEN 500 ELSE 200)
        /\ arg.error => out.value.body.k = "message"
        /\ ~arg.error =>
              out.value.body = (IF arg.result = ErrorValue
                                THEN Json("object", NULL, FALSE, <<>>)
                                ELSE arg.result)
        /\ out.value.headers.ContentType = "application/json"

C29_Witness ==
    /\ fn = "done"
    /\ out.k = "returned"
    /\ arg.error
    /\ arg.statusCode0 = ResponseStatus
    /\ out.value.statusCode = ResponseStatus
    /\ out.value.body.k = "message"

FnInit ==
    /\ MainOff
    /\ IoTOff
    /\ WrapOff
    /\ QueueOff
    /\ ShadowOff
    /\ out = NotApplied
    /\ \/ fn = "parseSIGFOXMessage" /\ arg \in NormPayloads
       \/ fn = "getResponse" /\ arg \in ResponseArgs
       \/ fn = "getDeviceState" /\ arg \in DeviceIds
       \/ fn = "main" /\ arg \in DeviceIds \ {<<>>}
       \/ fn = "saveMessage" /\ arg \in QueueArgs
       \/ fn = "done" /\ arg \in DoneArgs

FnNext ==
    \/ ApplyParse
    \/ ApplyGetResponse
    \/ ApplyShadowDevice
    \/ ApplyDeriveDevice
    \/ ApplyQueues
    \/ ApplyDone

FnSpec == FnInit /\ [][FnNext]_vars

-----------------------------------------------------------------------------
(* The response and the promise of main *)

\* C21: the response callback is invoked only after the fan-out has
\* completed: once the response has been sent, every publish the invocation
\* initiated has settled, and the step that sends it starts from such a state.
C21_ResponseAfterFanOut ==
    /\ [](callbackCount > 0 =>
            /\ Len(pubs) = Len(queues)
            /\ \A i \in 1..Len(pubs) : Settled(i))
    /\ [][callbackCount' > callbackCount =>
            \A i \in 1..Len(pubs) : Settled(i) /\ pubs'[i] = pubs[i]]_vars

C21_Witness ==
    /\ callbackCount = 1
    /\ Len(pubs) = 3
    /\ pubs[3] = "failed"
    /\ pubs[1] = "ok"

-----------------------------------------------------------------------------
(* The request/response pair of init, for invocations that interleave *)

MaxInvocations == 2

\* The status codes and the objects a task gives to res.status and res.json.
StatusCodes == {ResponseStatus, 500}

ResponseObjects ==
    {EndTaskValue, ErrorValue,
     Json("response", STR_missing_device, TRUE, <<>>)}

\* prepareRequest: { body, returnStatus: null, returnJSON: null }.
prepareRequest == [returnStatus |-> 0, returnJSON |-> NoJson]

\* One request object kept by the module and reused by every invocation.
ReqOfModule(i) == 1

\* The request the res object of invocation i writes to and reads from: the
\* const req of that call of init, which the closures of res capture.
ReqOf(i) == i

MainWrapOff ==
    /\ MainOff
    /\ FnOff
    /\ IoTOff

WrapInit == MainWrapOff /\ WrapOff /\ QueueOff /\ ShadowOff

Open(i) == i \in 1..Len(reqs) /\ sent[i] = <<>>

\* main is called: wrapCount is counted up and init builds a new request,
\* a new res over it, and keeps the callback of this invocation.
WrapMain ==
    /\ wrapCount < MaxInvocations
    /\ wrapCount' = wrapCount + 1
    /\ reqs' = Append(reqs, prepareRequest)
    /\ resSet' = Append(resSet, prepareRequest)
    /\ sent' = Append(sent, <<>>)
    /\ UNCHANGED <<mainVars, fnVars, iotVars, queueVars, shadowVars>>

\* res.status(code) of invocation i.
ResStatus ==
    /\ \E i \in 1..Len(reqs), code \in StatusCodes :
          /\ Open(i)
          /\ reqs' = [reqs EXCEPT ![ReqOf(i)].returnStatus = code]
          /\ resSet' = [resSet EXCEPT ![i].returnStatus = code]
    /\ UNCHANGED <<wrapCount, sent, mainVars, fnVars, iotVars, queueVars, shadowVars>>

\* res.json(obj) of invocation i.
ResJson ==
    /\ \E i \in 1..Len(reqs), obj \in ResponseObjects :
          /\ Open(i)
          /\ reqs' = [reqs EXCEPT ![ReqOf(i)].returnJSON = obj]
          /\ resSet' = [resSet EXCEPT ![i].returnJSON = obj]
    /\ UNCHANGED <<wrapCount, sent, mainVars, fnVars, iotVars, queueVars, shadowVars>>

\* res.end() of invocation i: done hands the request's status and JSON to
\* the callback of invocation i.
ResEnd ==
    /\ \E i \in 1..Len(reqs) :
          /\ Open(i)
          /\ sent' = [sent EXCEPT
                        ![i] = Append(@, done(FALSE, reqs[ReqOf(i)].returnJSON,
                                              reqs[ReqOf(i)].returnStatus))]
    /\ UNCHANGED <<wrapCount, reqs, resSet, mainVars, fnVars, iotVars, queueVars, shadowVars>>

WrapNext == WrapMain \/ ResStatus \/ ResJson \/ ResEnd

WrapSpec == WrapInit /\ [][WrapNext]_vars

\* C22: invocations that interleave share no response state: every
\* invocation has a request of its own, and what its callback receives is
\* the status and the JSON given to its own res object, whatever the other
\* invocation gave to its own in between.
C22_NoSharedResponseState ==
    /\ Len(reqs) = wrapCount
    /\ \A i \in 1..Len(sent) :
          \A k \in 1..Len(sent[i]) :
              sent[i][k] = done(FALSE, resSet[i].returnJSON,
                                resSet[i].returnStatus)

C22_Witness ==
    /\ wrapCount = 2
    /\ sent[1] = <<done(FALSE, EndTaskValue, ResponseStatus)>>
    /\ sent[2] = <<done(FALSE, ErrorValue, 500)>>
    /\ reqs[1] # reqs[2]

-----------------------------------------------------------------------------
(* The root trace id *)

-----------------------------------------------------------------------------
(* getIoTData under concurrent callers *)

Pending == {p \in 1..Len(iotPromises) : iotPromises[p] = "pending"}

\* C24: at most one describeEndpoint request is in flight, and it is the
\* memoized one; a call made while it is pending issues no request and
\* returns that pending promise; the memo is cleared only by the failure of
\* the promise it holds, so the failure of an old resolution never clears a
\* newer one.
C24_SingleFlight ==
    /\ [](Cardinality(Pending) <= 1)
    /\ [](\A p \in Pending : awsIoTDataPromise = p)
    /\ [][(awsIoTDataPromise \in Pending /\ Len(returned') > Len(returned)) =>
            /\ describeCalls' = describeCalls
            /\ returned'[Len(returned')].promise = awsIoTDataPromise]_vars
    /\ [][(awsIoTDataPromise # 0 /\ awsIoTDataPromise' # awsIoTDataPromise) =>
            /\ awsIoTDataPromise' = 0
            /\ iotPromises[awsIoTDataPromise] = "pending"
            /\ iotPromises'[awsIoTDataPromise] = "rejected"]_vars

C24_Witness ==
    /\ Len(returned) = 3
    /\ returned[1].promise = 1
    /\ returned[2].promise = 1
    /\ iotPromises[1] = "rejected"
    /\ returned[3].promise = 2
    /\ awsIoTDataPromise = 2
    /\ iotPromises[2] = "pending"

-----------------------------------------------------------------------------
(* The callback and the promise of main *)

\* C25: the response callback is never invoked more than once for one
\* invocation, whatever the outcomes of the publishes and of the flush.
C25_CallbackAtMostOnce ==
    /\ callbackCount <= 1
    /\ callbackCount = 1 => pc = "done"

C25_Witness ==
    /\ callbackCount = 1
    /\ endTask = "ok"
    /\ pubs = <<"failed", "failed", "failed">>

\* C26: the promise returned by main resolves with the envelope of the
\* request: with the dispatched copy, isDispatched = true, when the fan-out
\* completed, and with the original envelope when it did not; it reports
\* isDispatched = true only if every publish has settled.
C26_MainResolvesWithEnvelope ==
    /\ mainResult.isDispatched =>
          \A i \in 1..Len(pubs) : Len(pubs) = Len(queues) /\ Settled(i)
    /\ pc = "done" =>
          /\ mainResult.k = "envelope"
          /\ mainResult = [message EXCEPT !.isDispatched = TRUE]
    /\ thrown = "too_old" => mainResult = OldMessage

-----------------------------------------------------------------------------
(* getQueue(...).publisher().publish(buffer) and sendIoTMessage *)

\* The keys of the message body, in the order Object.keys lists them.
QKeys == <<"device", "seqNumber">>

\* What a key of the body holds: a string, number or boolean; null; nothing
\* (the key is absent); an object or array.
ValueKinds == {"scalar", "null", "absent", "object"}

NoFields == [i \in 1..Len(QKeys) |-> "absent"]

\* The buffers: text that is no JSON, the JSON null, a falsy JSON scalar,
\* and a message object that has a body or is itself the body.
Buffers ==
    {[kind |-> k, hasBody |-> FALSE, fields |-> NoFields] :
        k \in {"invalid", "null", "falsy"}}
    \cup {[kind |-> "message", hasBody |-> h, fields |-> f] :
            h \in BOOLEAN, f \in [1..Len(QKeys) -> ValueKinds]}

\* AWSXRay.captureAsyncFunc calls back with a subsegment, calls back with
\* none, or throws.
CaptureOutcomes == {"subsegment", "nosubsegment", "throws"}

\* The keys annotated by the callback of captureAsyncFunc.  JSON.parse of
\* text that is no JSON throws, as does msg.body of a null msg; a falsy msg
\* is no_body; addAnnotation fails on a missing subsegment and may fail at
\* the failAt-th key.  The catch of the try ends the loop at the first
\* failure.
Annotate(b, cap, failAt) ==
    LET Fails(i) == b.fields[i] = "scalar"
                      /\ (cap = "nosubsegment" \/ failAt = i)
    IN  IF cap = "throws" \/ b.kind # "message" THEN {}
        ELSE {QKeys[i] : i \in {j \in 1..Len(QKeys) :
                                   /\ b.fields[j] = "scalar"
                                   /\ \A h \in 1..j : ~Fails(h)}}

\* if (subsegment) subsegment.close()
Close(sub) == IF sub = "open" THEN "closed" ELSE sub

Settle(state, value) == [state |-> state, value |-> value]

\* A chain that ends without its catch: the error stays a rejection.
FinalCatchMissing(error) == Settle("rejected", error)

\* .catch(error => error): the promise resolves with the error.
FinalCatch(error) == Settle("resolved", error)

\* An earlier call of getIoTData left its promise memoized, the
\* describeEndpoint request behind it still in flight or answered.
IoTMemoized(state) ==
    /\ awsIoTDataPromise = 1
    /\ iotPromises = <<state>>
    /\ describeCalls = 1
    /\ returned = <<Returned(1, "getDeviceState")>>

\* Nothing is memoized, at the start or after a failed resolution.
IoTCleared(failures) ==
    /\ awsIoTDataPromise = 0
    /\ iotPromises = [i \in 1..failures |-> "rejected"]
    /\ describeCalls = failures
    /\ returned = [i \in 1..failures |-> Returned(i, "getDeviceState")]

IoTStarted ==
    \/ IoTCleared(0)
    \/ IoTCleared(1)
    \/ IoTMemoized("pending")
    \/ IoTMemoized("resolved")

QueueInit ==
    /\ MainOff /\ FnOff /\ IoTStarted /\ WrapOff /\ ShadowOff
    /\ buffer \in Buffers
    /\ qpc = "idle"
    /\ subsegment = "none"
    /\ annotations = {}
    /\ awaited = 0
    /\ transport = "idle"
    /\ outcome = Settle("none", "none")

\* publish(buffer): the executor of the new promise runs captureAsyncFunc,
\* whose callback annotates the subsegment and resolves the promise.
QueuePublish ==
    /\ qpc = "idle"
    /\ \E cap \in CaptureOutcomes, failAt \in 0..Len(QKeys) :
          /\ subsegment' = IF cap = "subsegment" THEN "open" ELSE "none"
          /\ annotations' = Annotate(buffer, cap, failAt)
          /\ qpc' = IF cap = "throws" THEN "caught" ELSE "annotated"
    /\ outcome' = Settle("pending", "none")
    /\ UNCHANGED <<buffer, awaited, transport, mainVars, fnVars, iotVars,
                   wrapVars, shadowVars>>

\* The first then: sendIoTMessage parses the payload, which throws out of
\* the handler when the text is no JSON, and asks getIoTData for the handle.
SendIoTMessage ==
    /\ qpc = "annotated"
    /\ IF buffer.kind = "invalid"
       THEN /\ qpc' = "caught"
            /\ UNCHANGED <<awaited, iotVars>>
       ELSE /\ getIoTData("sendIoTMessage")
            /\ awaited' = returned'[Len(returned')].promise
            /\ qpc' = "resolving"
    /\ UNCHANGED <<buffer, subsegment, annotations, transport, outcome,
                   mainVars, fnVars, wrapVars, shadowVars>>

\* The promise of getIoTData has settled.  Resolved: IotData.publish is
\* requested.  Rejected: sendIoTMessage logs and rethrows, dumpError turns
\* the rejection into a value, the next then closes the subsegment and the
\* publish resolves with that value.
EndpointReady ==
    /\ qpc = "resolving"
    /\ iotPromises[awaited] # "pending"
    /\ IF iotPromises[awaited] = "resolved"
       THEN /\ transport' = "pending"
            /\ iotCalls' = Append(iotCalls, "publish")
            /\ qpc' = "publishing"
            /\ UNCHANGED <<subsegment, outcome>>
       ELSE /\ subsegment' = Close(subsegment)
            /\ outcome' = Settle("resolved", "error")
            /\ qpc' = "settled"
            /\ UNCHANGED <<transport, iotCalls>>
    /\ UNCHANGED <<buffer, annotations, awaited, shadowOp, mainVars, fnVars,
                   iotVars, wrapVars>>

\* The IotData.publish request settles; either way the value reaches the
\* then that closes the subsegment, and the publish resolves.
IotPublishSettle ==
    /\ qpc = "publishing"
    /\ transport = "pending"
    /\ \E ok \in BOOLEAN :
          /\ transport' = IF ok THEN "ok" ELSE "failed"
          /\ outcome' = Settle("resolved", IF ok THEN "result" ELSE "error")
    /\ subsegment' = Close(subsegment)
    /\ qpc' = "settled"
    /\ UNCHANGED <<buffer, annotations, awaited, mainVars, fnVars, iotVars,
                   wrapVars, shadowVars>>

\* A rejection of the executor or of the first then skips the then that
\* closes the subsegment and lands in the final catch.
PublishCatch ==
    /\ qpc = "caught"
    /\ outcome' = FinalCatch("error")
    /\ qpc' = "settled"
    /\ UNCHANGED <<buffer, subsegment, annotations, awaited, transport,
                   mainVars, fnVars, iotVars, wrapVars, shadowVars>>

QueueNext ==
    \/ QueuePublish
    \/ SendIoTMessage
    \/ EndpointReady
    \/ IotPublishSettle
    \/ PublishCatch
    \/ DescribeEndpointSettle

QueueSpec == QueueInit /\ [][QueueNext]_vars

\* AWS IoT settles every request, and the event loop runs every handler
\* that is ready.
QueueFairSpec ==
    QueueSpec /\ WF_vars(SendIoTMessage) /\ WF_vars(EndpointReady)
              /\ WF_vars(IotPublishSettle) /\ WF_vars(PublishCatch)
              /\ WF_vars(DescribeEndpointSettle)

\* C27: the publish to a queue never rejects and, once called, resolves:
\* only keys that hold a scalar are annotated, and a failure of the
\* annotation, of the endpoint resolution or of the submission ends as a
\* resolved promise.
C27_PublishAlwaysResolves ==
    /\ [](outcome.state # "rejected")
    /\ [](\A i \in 1..Len(QKeys) :
            QKeys[i] \in annotations => buffer.fields[i] = "scalar")
    /\ [](qpc = "settled" => outcome.state = "resolved")
    /\ (outcome.state = "pending" ~> outcome.state = "resolved")

C27_Witness ==
    /\ outcome = Settle("resolved", "error")
    /\ buffer.kind = "message"
    /\ buffer.fields = <<"scalar", "object">>
    /\ annotations = {"device"}
    /\ awaited # 0
    /\ iotPromises[awaited] = "rejected"

\* C30: every subsegment the publish opened is closed by the time the
\* publish resolves.
C30_SubsegmentClosedOnResolve ==
    outcome.state = "resolved" => subsegment # "open"

-----------------------------------------------------------------------------
(* createDevice, getDeviceState, updateDeviceState *)

\* The device ids given to the operations: none, empty, an id, a name.
ShadowIds ==
    {UNDEFINED, NULL, <<>>} \cup RawDevices
    \cup {<<"a", "B", "1", "a", "B", "1", "a">>}

ShadowInit ==
    /\ MainOff /\ FnOff /\ IoTStarted /\ WrapOff /\ QueueOff /\ ShadowOff

\* The state of an operation: what it was given, the thing name it uses,
\* the request it waits for, and how it ended.
ShadowOp(op, device0, thing, k, stage) ==
    [op |-> op, device0 |-> device0, thing |-> thing, k |-> k,
     stage |-> stage, error |-> IF k = "threw" THEN "missing_deviceid"
                                ELSE "none"]

\* createDevice: throws on a missing id, else looks the thing up.
CreateDevice ==
    /\ shadowOp.k = "none"
    /\ \E d \in ShadowIds :
          LET dev == ShadowDevice(d, 1)
          IN  IF dev.k = "threw"
              THEN /\ shadowOp' = ShadowOp("createDevice", d, d, "threw", "none")
                   /\ UNCHANGED iotCalls
              ELSE /\ shadowOp' = ShadowOp("createDevice", d, dev.device,
                                           "pending", "describeThing")
                   /\ iotCalls' = Append(iotCalls, "describeThing")
    /\ UNCHANGED <<mainVars, fnVars, iotVars, wrapVars, queueVars>>

\* The start of getDeviceState and of updateDeviceState: throws on a missing
\* id, else asks getIoTData for the handle.
ShadowStart(op) ==
    /\ shadowOp.k = "none"
    /\ \E d \in ShadowIds :
          LET dev == ShadowDevice(d, 1)
          IN  IF dev.k = "threw"
              THEN /\ shadowOp' = ShadowOp(op, d, d, "threw", "none")
                   /\ UNCHANGED iotVars
              ELSE /\ shadowOp' = ShadowOp(op, d, dev.device, "pending",
                                           "endpoint")
                   /\ getIoTData(op)
    /\ UNCHANGED <<iotCalls, mainVars, fnVars, wrapVars, queueVars>>

GetDeviceState == ShadowStart("getDeviceState")

UpdateDeviceState == ShadowStart("updateDeviceState")

\* describeThing settles: the device exists, or createThing is requested.
DescribeThingSettle ==
    /\ shadowOp.k = "pending"
    /\ shadowOp.stage = "describeThing"
    /\ \E ok \in BOOLEAN :
          IF ok
          THEN /\ shadowOp' = [shadowOp EXCEPT !.k = "resolved", !.stage = "none"]
               /\ UNCHANGED iotCalls
          ELSE /\ shadowOp' = [shadowOp EXCEPT !.stage = "createThing"]
               /\ iotCalls' = Append(iotCalls, "createThing")
    /\ UNCHANGED <<mainVars, fnVars, iotVars, wrapVars, queueVars>>

\* createThing, getThingShadow or updateThingShadow settles, and with it
\* the operation: a failure is logged and thrown again.
ThingRequestSettle ==
    /\ shadowOp.k = "pending"
    /\ shadowOp.stage \in {"createThing", "getThingShadow", "updateThingShadow"}
    /\ \E ok \in BOOLEAN :
          shadowOp' = [shadowOp EXCEPT !.k = IF ok THEN "resolved" ELSE "rejected",
                                       !.stage = "none"]
    /\ UNCHANGED <<iotCalls, mainVars, fnVars, iotVars, wrapVars, queueVars>>

\* The promise of getIoTData the operation waits for has settled: the
\* shadow request is made with the handle, or the operation rejects.
ShadowEndpointReady ==
    /\ shadowOp.k = "pending"
    /\ shadowOp.stage = "endpoint"
    /\ LET p == returned[Len(returned)].promise
           request == IF shadowOp.op = "getDeviceState" THEN "getThingShadow"
                      ELSE "updateThingShadow"
       IN  /\ iotPromises[p] # "pending"
           /\ IF iotPromises[p] = "resolved"
              THEN /\ shadowOp' = [shadowOp EXCEPT !.stage = request]
                   /\ iotCalls' = Append(iotCalls, request)
              ELSE /\ shadowOp' = [shadowOp EXCEPT !.k = "rejected",
                                                   !.stage = "none"]
                   /\ UNCHANGED iotCalls
    /\ UNCHANGED <<mainVars, fnVars, iotVars, wrapVars, queueVars>>

ShadowNext ==
    \/ CreateDevice
    \/ GetDeviceState
    \/ UpdateDeviceState
    \/ DescribeThingSettle
    \/ ThingRequestSettle
    \/ ShadowEndpointReady
    \/ DescribeEndpointSettle

ShadowSpec == ShadowInit /\ [][ShadowNext]_vars

\* C28: a device operation given no device id, or an empty one, fails with
\* missing_deviceid, and only then; such an operation makes no request to
\* AWS IoT, describeEndpoint included, and leaves the memoized promise as it
\* was.
C28_MissingDeviceIdNoCalls ==
    /\ [](shadowOp.k # "none" =>
            (shadowOp.k = "threw" <=>
                shadowOp.device0 \in {UNDEFINED, NULL, <<>>}))
    /\ [](shadowOp.k = "threw" =>
            /\ shadowOp.error = "missing_deviceid"
            /\ iotCalls = <<>>)
    /\ [][shadowOp'.k = "threw" =>
            /\ describeCalls' = describeCalls
            /\ returned' = returned
            /\ shadowOp.k = "none" =>
                  /\ awsIoTDataPromise' = awsIoTDataPromise
                  /\ iotPromises' = iotPromises]_vars

C28_Witness ==
    /\ shadowOp.k = "threw"
    /\ shadowOp.op = "updateDeviceState"
    /\ shadowOp.device0 = <<>>
    /\ awsIoTDataPromise = 0
    /\ describeCalls = 0

====
